---- MODULE Spec2Model ----
(***************************************************************************)
(* fmcardgen/draw.py: the greedy text wrapper (wrap_font_text) and the     *)
(* field renderer (draw, draw_text_field, to_pil_color).                   *)
(*                                                                         *)
(* A text is a sequence of characters over Chars.  "a" stands for any      *)
(* letter, "-" is the hyphen, " " is the blank; these are the three        *)
(* classes of characters TextWrapper.wordsep_re tells apart.  On this      *)
(* alphabet TextWrapper._munge_whitespace changes nothing (there is no tab *)
(* and no whitespace other than the blank).                                *)
(***************************************************************************)
EXTENDS Integers, Sequences, FiniteSets, TLC

VARIABLES
    text,            \* wrap_font_text: the argument text
    font,            \* wrap_font_text: the font, as the advance of each glyph
    max_width,       \* wrap_font_text: the argument max_width
    chunks,          \* wrap_font_text: wrapper._split_chunks(text)
    idx,             \* position of the for loop in chunks (next chunk to read)
    lines,           \* wrap_font_text: lines, each a list of chunks
    cur_line,        \* wrap_font_text: cur_line
    cur_line_width,  \* wrap_font_text: cur_line_width
    wpc,             \* wrap_font_text: "loop" or "done"
    result,          \* wrap_font_text: the returned string
    fields,          \* draw: cnf.text_fields, each with the front matter's value for it
    fi,              \* draw: the iteration of "for field in cnf.text_fields"
    dpc,             \* draw / draw_text_field: the statement about to run
    im,              \* draw: the surface opened from the template
    value,           \* draw: value; draw_text_field: text
    overlay,         \* draw_text_field: overlay (none before it is created)
    box,             \* draw_text_field: (x0, x1) of the padded bounding box
    error,           \* the exception that left draw (none, or the field that raised)
    ret              \* what draw returned to its caller (none before it returns)

wrapvars == <<text, font, max_width, chunks, idx, lines, cur_line, cur_line_width, wpc, result>>

drawvars == <<fields, fi, dpc, im, value, overlay, box, error, ret>>

vars == <<wrapvars, drawvars>>

(***************************************************************************)
(* Bounds                                                                  *)
(***************************************************************************)
MaxLen == 5
MaxGlyph == 2
MaxWidth == 4
MaxFields == 2
ImWidth == 4
MaxX == 1
MaxBudget == 2
MaxPad == 1

Chars == {"a", "-", " "}

Texts == UNION {[1..n -> Chars] : n \in 0..MaxLen}

Fonts == [Chars -> 0..MaxGlyph]

\* max_width is im.width - field.x when no explicit width is set, which is
\* negative for a field placed right of the surface.
Widths == -1..MaxWidth

(***************************************************************************)
(* Characters and strings                                                  *)
(***************************************************************************)
At(t, k) == IF k \in 1..Len(t) THEN t[k] ELSE "$"

IsLetter(c) == c = "a"

\* str.isspace() of a non-empty chunk
isspace(chunk) == Len(chunk) > 0 /\ \A k \in 1..Len(chunk) : chunk[k] = " "

\* the last position of the run of character c that starts at p
RunEnd(t, p, c) ==
    CHOOSE e \in p..Len(t) :
        /\ \A k \in p..e : t[k] = c
        /\ At(t, e + 1) # c

\* wordsep_re, second alternative: (?<=[\w!"'&.,?]) -{2,} (?=\w), tried at p
EmDash(t, p) ==
    /\ At(t, p) = "-"
    /\ At(t, p + 1) = "-"
    /\ IsLetter(At(t, RunEnd(t, p, "-") + 1))

\* wordsep_re, "hyphenated word": the hyphen at q ends a chunk when it follows
\* two letters, or letter-hyphen-letter, and a letter, an optional hyphen and a
\* letter follow it
HyphenBreak(t, q) ==
    /\ At(t, q) = "-"
    /\ \/ IsLetter(At(t, q - 1)) /\ IsLetter(At(t, q - 2))
       \/ IsLetter(At(t, q - 1)) /\ At(t, q - 2) = "-" /\ IsLetter(At(t, q - 3))
    /\ IsLetter(At(t, q + 1))
    /\ \/ IsLetter(At(t, q + 2))
       \/ At(t, q + 2) = "-" /\ IsLetter(At(t, q + 3))

\* wordsep_re, third alternative: the lazy run of non-blanks read up to q
\* (exclusive) stops at a hyphen break, at the end of the word, or before an
\* em-dash that follows a letter
WordStop(t, q) ==
    \/ HyphenBreak(t, q)
    \/ q > Len(t)
    \/ At(t, q) = " "
    \/ IsLetter(At(t, q - 1)) /\ EmDash(t, q)

\* the last position of the chunk wordsep_re matches at p
ChunkEnd(t, p) ==
    IF t[p] = " " THEN RunEnd(t, p, " ")
    ELSE IF IsLetter(At(t, p - 1)) /\ EmDash(t, p) THEN RunEnd(t, p, "-")
    ELSE LET q == CHOOSE q \in (p + 1)..(Len(t) + 1) :
                      /\ WordStop(t, q)
                      /\ \A r \in (p + 1)..(q - 1) : ~WordStop(t, r)
         IN  IF HyphenBreak(t, q) THEN q ELSE q - 1

RECURSIVE SplitFrom(_, _)
SplitFrom(t, p) ==
    IF p > Len(t) THEN <<>>
    ELSE LET e == ChunkEnd(t, p)
         IN  <<SubSeq(t, p, e)>> \o SplitFrom(t, e + 1)

\* mutant of split_chunks: the loop runs over the characters of the text
split_chars(t) == [k \in 1..Len(t) |-> <<t[k]>>]

\* TextWrapper()._split_chunks(text): break_on_hyphens is True by default
split_chunks(t) == SplitFrom(t, 1)

\* font.getsize(chunk)[0]: the advances of the glyphs, summed
RECURSIVE getsize(_, _)
getsize(f, chunk) ==
    IF chunk = <<>> THEN 0 ELSE f[Head(chunk)] + getsize(f, Tail(chunk))

\* str.strip()
RECURSIVE lstrip(_)
lstrip(s) == IF s # <<>> /\ Head(s) = " " THEN lstrip(Tail(s)) ELSE s

RECURSIVE rstrip(_)
rstrip(s) ==
    IF s # <<>> /\ s[Len(s)] = " " THEN rstrip(SubSeq(s, 1, Len(s) - 1)) ELSE s

strip(s) == rstrip(lstrip(s))

\* "".join(line), a line being a list of positions in cs
RECURSIVE concat(_, _)
concat(cs, line) ==
    IF line = <<>> THEN <<>> ELSE cs[Head(line)] \o concat(cs, Tail(line))

\* "\n".join("".join(line).strip() for line in lines)
RECURSIVE join(_, _)
join(cs, ls) ==
    IF ls = <<>> THEN <<>>
    ELSE IF Len(ls) = 1 THEN strip(concat(cs, ls[1]))
    ELSE strip(concat(cs, ls[1])) \o <<"\n">> \o join(cs, Tail(ls))

(***************************************************************************)
(* wrap_font_text                                                          *)
(*                                                                         *)
(* A line is the list of the positions (in chunks) of the chunks put on    *)
(* it; the chunk itself is chunks[k].  The state of the loop is the record *)
(* [lines, cur_line, cur_line_width].                                      *)
(***************************************************************************)
None == <<"None">>

\* lines 91-93
wrap_start == [lines |-> <<>>, cur_line |-> <<>>, cur_line_width |-> 0]

\* mutant of too_long: the width already on the line is left out
too_long_chunk_only(w, width, mw) == width > mw

\* line 99: if cur_line_width + width > max_width
too_long(w, width, mw) == w + width > mw

\* line 103: if cur_line_width == 0
at_line_start(w) == w = 0

\* lines 104-107: the chunk becomes a line by itself
lone_chunk(st, k) ==
    [lines |-> Append(st.lines, <<k>>), cur_line |-> <<>>, cur_line_width |-> 0]

\* line 110: cur_line = [] if chunk.isspace() else [chunk]
seed_line(cs, k) == IF isspace(cs[k]) THEN <<>> ELSE <<k>>

\* mutant of seed_width: the new line's width starts at zero
seed_width_zero(width) == 0

\* line 111: cur_line_width = width
seed_width(width) == width

\* lines 109-111: the current line is closed and a new one started
close_line(st, cs, k, width) ==
    [lines |-> Append(st.lines, st.cur_line),
     cur_line |-> seed_line(cs, k),
     cur_line_width |-> seed_width(width)]

\* lines 113-115
append_chunk(st, k, width) ==
    [lines |-> st.lines,
     cur_line |-> Append(st.cur_line, k),
     cur_line_width |-> st.cur_line_width + width]

\* lines 96-115: one iteration of the loop, on chunk k
wrap_iter(st, cs, k, f, mw) ==
    LET width == getsize(f, cs[k])
    IN  IF too_long(st.cur_line_width, width, mw)
        THEN IF at_line_start(st.cur_line_width)
             THEN lone_chunk(st, k)
             ELSE close_line(st, cs, k, width)
        ELSE append_chunk(st, k, width)

\* lines 117-118: if cur_line: lines.append(cur_line)
final_lines(st) ==
    IF st.cur_line # <<>> THEN Append(st.lines, st.cur_line) ELSE st.lines

RECURSIVE wrap_loop(_, _, _, _, _)
wrap_loop(st, cs, k, f, mw) ==
    IF k > Len(cs) THEN st ELSE wrap_loop(wrap_iter(st, cs, k, f, mw), cs, k + 1, f, mw)

\* wrap_font_text(font, text, max_width), lines 87-120
wrap_font_text(f, t, mw) ==
    LET cs == split_chunks(t)
    IN  join(cs, final_lines(wrap_loop(wrap_start, cs, 1, f, mw)))

(***************************************************************************)
(* draw and draw_text_field                                                *)
(*                                                                         *)
(* The surface is one row of ImWidth pixels.  A pixel is the list of the   *)
(* layers blended into it, bottom first: the template's own pixel, then    *)
(* one layer for each draw that reached it.  A draw that overwrites a      *)
(* pixel replaces the list; a draw that blends appends to it.              *)
(* An optional value (Optional[int], Optional[Color]) is <<>> or <<v>>.    *)
(***************************************************************************)
Template == [field |-> 0, kind |-> "template", fill |-> <<"template">>]

\* Image.open(cnf.template), line 11
open_template == [width |-> ImWidth, px |-> [p \in 0..(ImWidth - 1) |-> <<Template>>]]

\* the glyph advances of a loaded font (ImageFont.load_default or truetype)
LoadedFont == [c \in Chars |-> 1]

\* pydantic colors: as_rgb_tuple() has an alpha, a fraction, only when one is
\* set; alpha is kept here in tenths
Red == [rgb |-> <<255, 0, 0>>, alpha |-> <<>>]

Red40 == [rgb |-> <<255, 0, 0>>, alpha |-> <<4>>]

White == [rgb |-> <<255, 255, 255>>, alpha |-> <<>>]

\* lines 126-140: round(a * 255) for the alpha, the other channels as they are
\* (the alphas used here give no tie to round)
to_pil_color(color) ==
    IF color.alpha = <<>> THEN color.rgb
    ELSE color.rgb \o <<(color.alpha[1] * 255 + 5) \div 10>>

\* the value the front matter holds for a field: a text, or nothing when the
\* source is missing, has no default and the field is not optional
Missing == <<"Missing">>

Values == {<<"a", "a">>, <<"a", " ", "a">>, <<"a", "a", " ", "a">>}

\* the fields of a card with a single field
RichFields ==
    [x : 0..MaxX, fm : Values \cup {Missing}, wrap : BOOLEAN,
     max_width : {<<>>} \cup {<<w>> : w \in 0..MaxBudget},
     bg : {<<>>, <<Red40>>, <<Red>>},
     left : 0..MaxPad, right : 0..MaxPad,
     font : {"DEFAULT_FONT", "ttf", "unreadable"}]

\* the fields of a card with several fields
PlainFields ==
    [x : 0..MaxX, fm : {<<"a", "a">>, Missing}, wrap : {FALSE},
     max_width : {<<>>},
     bg : {<<>>, <<Red40>>},
     left : {0}, right : {0},
     font : {"ttf", "unreadable"}]

\* Python's truth of an Optional[int]: None and 0 are false
truthy(opt) == opt # <<>> /\ opt[1] # 0

\* line 57: field.max_width if field.max_width else im.width - field.x
effective_max_width(field, surface) ==
    IF truthy(field.max_width) THEN field.max_width[1] ELSE surface.width - field.x

\* the lines of a text, split at its line breaks
RECURSIVE text_lines(_, _)
text_lines(t, acc) ==
    IF t = <<>> THEN <<acc>>
    ELSE IF Head(t) = "\n" THEN <<acc>> \o text_lines(Tail(t), <<>>)
    ELSE text_lines(Tail(t), Append(acc, Head(t)))

RECURSIVE max_line_width(_, _)
max_line_width(f, ls) ==
    IF ls = <<>> THEN 0
    ELSE LET w == getsize(f, Head(ls))
             m == max_line_width(f, Tail(ls))
         IN  IF w > m THEN w ELSE m

\* draw.textbbox(xy=(field.x, field.y), text=text, font=font), line 63: x0, x1
textbbox(x, t, f) == <<x, x + max_line_width(f, text_lines(t, <<>>))>>

\* lines 67-70: the box grown by the padding
expand(b, field) == <<b[1] - field.left, b[2] + field.right>>

\* Image.new(mode="RGBA", size=im.size, color=(0, 0, 0, 0)), line 76
new_overlay(surface) == [width |-> surface.width, px |-> [p \in 0..(surface.width - 1) |-> <<>>]]

\* ImageDraw.Draw(overlay).rectangle(xy, fill), lines 77-80: the pixels from
\* x0 to x1, both included, are overwritten
rectangle(surface, b, layer) ==
    [surface EXCEPT !.px = [p \in DOMAIN surface.px |->
        IF b[1] <= p /\ p <= b[2] THEN <<layer>> ELSE surface.px[p]]]

\* mutant of alpha_composite: the overlay is pasted over the surface
paste(surface, over) ==
    [surface EXCEPT !.px = [p \in DOMAIN surface.px |-> over.px[p]]]

\* im.alpha_composite(overlay), line 81: every pixel of the overlay is blended
\* over the surface's pixel; a fully transparent one leaves it as it was
alpha_composite(surface, over) ==
    [surface EXCEPT !.px = [p \in DOMAIN surface.px |-> surface.px[p] \o over.px[p]]]

\* draw.text(xy=(field.x, field.y), text, font, fill), line 84: the glyphs are
\* blended into the pixels they cover
draw_text(surface, x, t, f, layer) ==
    LET b == textbbox(x, t, f)
    IN  [surface EXCEPT !.px = [p \in DOMAIN surface.px |->
            IF b[1] <= p /\ p < b[2] THEN Append(surface.px[p], layer)
            ELSE surface.px[p]]]

\* mutant of raise_error: the error is recorded and the loop goes on
skip_field(k) == [dpc |-> "next", error |-> <<k>>]

\* an exception raised while field k is handled: nothing in draw catches it,
\* lines 10-47
raise_error(k) == [dpc |-> "raised", error |-> <<k>>]

\* the frame of wrap_font_text when it has not been called
WrapIdle ==
    /\ text = <<>>
    /\ font = LoadedFont
    /\ max_width = 0
    /\ chunks = <<>>
    /\ idx = 1
    /\ lines = <<>>
    /\ cur_line = <<>>
    /\ cur_line_width = 0
    /\ wpc = "idle"
    /\ result = None

\* draw when it has not been called
DrawIdle ==
    /\ fields = <<>>
    /\ fi = 1
    /\ dpc = "idle"
    /\ im = open_template
    /\ value = <<>>
    /\ overlay = <<>>
    /\ box = <<0, 0>>
    /\ error = <<>>
    /\ ret = <<>>

\* line 11: a card of one field of any shape, or of up to MaxFields plain fields
DrawInit ==
    /\ fields \in [1..1 -> RichFields] \cup UNION {[1..n -> PlainFields] : n \in 0..MaxFields}
    /\ fi = 1
    /\ dpc = "for"
    /\ im = open_template
    /\ value = <<>>
    /\ overlay = <<>>
    /\ box = <<0, 0>>
    /\ error = <<>>
    /\ ret = <<>>
    /\ WrapIdle

\* mutant of field_at: the fields are taken last first
field_at_reversed(cnf, k) == cnf[Len(cnf) + 1 - k]

\* line 13: the k-th iteration of "for field in cnf.text_fields"
field_at(cnf, k) == cnf[k]

field == field_at(fields, fi)

Raise(k) ==
    LET st == raise_error(k)
    IN  /\ dpc' = st.dpc
        /\ error' = st.error

\* line 13: the next field, or the end of the loop
ForField ==
    /\ dpc = "for"
    /\ fi <= Len(fields)
    /\ dpc' = "resolve"
    /\ UNCHANGED <<fields, fi, im, value, overlay, box, error, ret>>
    /\ UNCHANGED wrapvars

\* lines 15-43: the value of the field is found in the front matter
Resolve ==
    /\ dpc = "resolve"
    /\ field.fm # Missing
    /\ value' = field.fm
    /\ dpc' = "font"
    /\ UNCHANGED <<fields, fi, im, overlay, box, error, ret>>
    /\ UNCHANGED wrapvars

\* lines 21, 31: get_frontmatter_formatted / get_frontmatter_value raises
ResolveRaises ==
    /\ dpc = "resolve"
    /\ field.fm = Missing
    /\ Raise(fi)
    /\ UNCHANGED <<fields, fi, im, value, overlay, box, ret>>
    /\ UNCHANGED wrapvars

\* lines 45, 50-54: draw_text_field is entered and the font loaded
LoadFont ==
    /\ dpc = "font"
    /\ field.font # "unreadable"
    /\ text' = <<>>
    /\ font' = LoadedFont
    /\ max_width' = 0
    /\ chunks' = <<>>
    /\ idx' = 1
    /\ lines' = <<>>
    /\ cur_line' = <<>>
    /\ cur_line_width' = 0
    /\ wpc' = "idle"
    /\ result' = None
    /\ overlay' = <<>>
    /\ dpc' = "wrap"
    /\ UNCHANGED <<fields, fi, im, value, box, error, ret>>

\* line 54: ImageFont.truetype raises
LoadFontRaises ==
    /\ dpc = "font"
    /\ field.font = "unreadable"
    /\ Raise(fi)
    /\ UNCHANGED <<fields, fi, im, value, overlay, box, ret>>
    /\ UNCHANGED wrapvars

\* lines 56-58, with the whole call of wrap_font_text
WrapText ==
    /\ dpc = "wrap"
    /\ field.wrap
    /\ text' = value
    /\ font' = LoadedFont
    /\ max_width' = effective_max_width(field, im)
    /\ chunks' = split_chunks(text')
    /\ idx' = Len(chunks') + 1
    /\ LET st == wrap_loop(wrap_start, chunks', 1, font', max_width')
       IN  /\ lines' = final_lines(st)
           /\ cur_line' = st.cur_line
           /\ cur_line_width' = st.cur_line_width
    /\ result' = join(chunks', lines')
    /\ wpc' = "done"
    /\ value' = result'
    /\ dpc' = "bg"
    /\ UNCHANGED <<fields, fi, im, overlay, box, error, ret>>

\* line 56: no wrap is asked for
NoWrap ==
    /\ dpc = "wrap"
    /\ ~field.wrap
    /\ dpc' = "bg"
    /\ UNCHANGED <<fields, fi, im, value, overlay, box, error, ret>>
    /\ UNCHANGED wrapvars

\* lines 62-76: the padded box, and the overlay
NewOverlay ==
    /\ dpc = "bg"
    /\ field.bg # <<>>
    /\ box' = expand(textbbox(field.x, value, LoadedFont), field)
    /\ overlay' = <<new_overlay(im)>>
    /\ dpc' = "rectangle"
    /\ UNCHANGED <<fields, fi, im, value, error, ret>>
    /\ UNCHANGED wrapvars

\* line 62: no background is configured
NoBackground ==
    /\ dpc = "bg"
    /\ field.bg = <<>>
    /\ dpc' = "text"
    /\ UNCHANGED <<fields, fi, im, value, overlay, box, error, ret>>
    /\ UNCHANGED wrapvars

\* lines 77-80
Rectangle ==
    /\ dpc = "rectangle"
    /\ overlay' = <<rectangle(overlay[1], box,
                      [field |-> fi, kind |-> "bg", fill |-> to_pil_color(field.bg[1])])>>
    /\ dpc' = "composite"
    /\ UNCHANGED <<fields, fi, im, value, box, error, ret>>
    /\ UNCHANGED wrapvars

\* line 81
Composite ==
    /\ dpc = "composite"
    /\ im' = alpha_composite(im, overlay[1])
    /\ dpc' = "text"
    /\ UNCHANGED <<fields, fi, value, overlay, box, error, ret>>
    /\ UNCHANGED wrapvars

\* line 84
DrawText ==
    /\ dpc = "text"
    /\ im' = draw_text(im, field.x, value, LoadedFont,
                 [field |-> fi, kind |-> "text", fill |-> to_pil_color(White)])
    /\ dpc' = "next"
    /\ UNCHANGED <<fields, fi, value, overlay, box, error, ret>>
    /\ UNCHANGED wrapvars

\* line 13: the loop moves to the following field
NextField ==
    /\ dpc = "next"
    /\ fi' = fi + 1
    /\ dpc' = "for"
    /\ UNCHANGED <<fields, im, value, overlay, box, error, ret>>
    /\ UNCHANGED wrapvars

\* line 47: return im
ReturnIm ==
    /\ dpc = "for"
    /\ fi > Len(fields)
    /\ ret' = <<im>>
    /\ dpc' = "returned"
    /\ UNCHANGED <<fields, fi, im, value, overlay, box, error>>
    /\ UNCHANGED wrapvars

Next ==
    \/ ForField
    \/ Resolve
    \/ ResolveRaises
    \/ LoadFont
    \/ LoadFontRaises
    \/ WrapText
    \/ NoWrap
    \/ NewOverlay
    \/ NoBackground
    \/ Rectangle
    \/ Composite
    \/ DrawText
    \/ NextField
    \/ ReturnIm

Spec == DrawInit /\ [][Next]_vars

\* the state of the loop, as a record
loop_state == [lines |-> lines, cur_line |-> cur_line, cur_line_width |-> cur_line_width]

\* the measured width of the chunk the loop is about to read (line 96)
width == getsize(font, chunks[idx])

Step(st) ==
    /\ lines' = st.lines
    /\ cur_line' = st.cur_line
    /\ cur_line_width' = st.cur_line_width
    /\ idx' = idx + 1
    /\ UNCHANGED <<text, font, max_width, chunks, wpc, result>>
    /\ UNCHANGED drawvars

WrapInit ==
    /\ text \in Texts
    /\ font \in Fonts
    /\ max_width \in Widths
    /\ chunks = split_chunks(text)
    /\ idx = 1
    /\ lines = wrap_start.lines
    /\ cur_line = wrap_start.cur_line
    /\ cur_line_width = wrap_start.cur_line_width
    /\ wpc = "loop"
    /\ result = None
    /\ DrawIdle

\* lines 99, 103-107
LoneChunk ==
    /\ wpc = "loop"
    /\ idx <= Len(chunks)
    /\ too_long(cur_line_width, width, max_width)
    /\ at_line_start(cur_line_width)
    /\ Step(lone_chunk(loop_state, idx))

\* lines 99, 109-111
CloseLine ==
    /\ wpc = "loop"
    /\ idx <= Len(chunks)
    /\ too_long(cur_line_width, width, max_width)
    /\ ~at_line_start(cur_line_width)
    /\ Step(close_line(loop_state, chunks, idx, width))

\* lines 113-115
AppendChunk ==
    /\ wpc = "loop"
    /\ idx <= Len(chunks)
    /\ ~too_long(cur_line_width, width, max_width)
    /\ Step(append_chunk(loop_state, idx, width))

\* lines 117-120
Return ==
    /\ wpc = "loop"
    /\ idx > Len(chunks)
    /\ lines' = final_lines(loop_state)
    /\ result' = join(chunks, lines')
    /\ wpc' = "done"
    /\ UNCHANGED <<text, font, max_width, chunks, idx, cur_line, cur_line_width>>
    /\ UNCHANGED drawvars

WrapNext == LoneChunk \/ CloseLine \/ AppendChunk \/ Return

WrapSpec == WrapInit /\ [][WrapNext]_vars

(***************************************************************************)
(* What the claims speak of                                                *)
(***************************************************************************)
\* the measured width of a line: the widths of its chunks, summed
RECURSIVE LineWidth(_)
LineWidth(line) ==
    IF line = <<>> THEN 0
    ELSE getsize(font, chunks[Head(line)]) + LineWidth(Tail(line))

RECURSIVE Flatten(_)
Flatten(ls) == IF ls = <<>> THEN <<>> ELSE Head(ls) \o Flatten(Tail(ls))

IsWord(k) == ~isspace(chunks[k])

\* the positions, in order, of the non-whitespace chunks among ks
RECURSIVE Words(_)
Words(ks) ==
    IF ks = <<>> THEN <<>>
    ELSE IF IsWord(Head(ks)) THEN <<Head(ks)>> \o Words(Tail(ks))
    ELSE Words(Tail(ks))

AllChunks == [k \in 1..Len(chunks) |-> k]

\* the lines that hold chunk k
LinesOf(k) == {i \in 1..Len(lines) : \E j \in 1..Len(lines[i]) : lines[i][j] = k}

Emitted(k) == LinesOf(k) # {}

TooWide(k) == getsize(font, chunks[k]) > max_width

\* the chunk that covers position p of the text
RECURSIVE ChunkAtFrom(_, _, _)
ChunkAtFrom(p, k, start) ==
    IF p < start + Len(chunks[k]) THEN k
    ELSE ChunkAtFrom(p, k + 1, start + Len(chunks[k]))

ChunkAt(p) == ChunkAtFrom(p, 1, 1)

\* C1: with max_width > 0, every emitted line has a measured width of at most
\* max_width, unless it is a single chunk that is itself wider than max_width.
C1_WidthBound ==
    max_width > 0 =>
        \A i \in 1..Len(lines) :
            \/ LineWidth(lines[i]) <= max_width
            \/ Len(lines[i]) = 1 /\ TooWide(lines[i][1])

\* C1 witness: a finished wrap with max_width > 0 that emitted a line of several
\* chunks within the budget and a line that is one over-wide chunk.
C1_Witness ==
    /\ wpc = "done"
    /\ max_width > 0
    /\ \E i \in 1..Len(lines) : Len(lines[i]) >= 2 /\ LineWidth(lines[i]) = max_width
    /\ \E i \in 1..Len(lines) : Len(lines[i]) = 1 /\ TooWide(lines[i][1])

\* C2 (as claimed): the non-whitespace chunks read from the output lines in
\* order are exactly the non-whitespace chunks of the input.
C2_WordsPreserved ==
    wpc = "done" => Words(Flatten(lines)) = Words(AllChunks)

C8_WidthIsSum ==
    wpc = "loop" => cur_line_width = LineWidth(cur_line)

\* C9 (as claimed): when no whitespace chunk is itself wider than max_width, a
\* line that is closed holds at least one chunk, so that no emitted line has
\* zero chunks (and the output no blank line).
C9_NoEmptyLine ==
    (\A k \in 1..Len(chunks) : isspace(chunks[k]) => ~TooWide(k)) =>
        \A i \in 1..Len(lines) : lines[i] # <<>>

\* the pixels of the surface
Pixels == 0..(ImWidth - 1)

\* the layers of field k in a pixel
LayersOf(log, k) == SelectSeq(log, LAMBDA l : l.field = k)

Kinds(log) == [n \in 1..Len(log) |-> log[n].kind]

\* the pixel has a layer of this kind of field k
Has(log, k, kind) == \E n \in 1..Len(log) : log[n].field = k /\ log[n].kind = kind

\* field k reached pixel p
Reached(surface, p, k) == LayersOf(surface.px[p], k) # <<>>

\* the layers of a pixel are in the order of the fields, the template first,
\* and a field's background is below its text
InFieldOrder(log) ==
    \A m, n \in 1..Len(log) :
        m < n => \/ log[m].field < log[n].field
                 \/ log[m].field = log[n].field /\ log[m].kind = "bg" /\ log[n].kind = "text"

InBox(p, b) == b[1] <= p /\ p <= b[2]

\* the statements of draw_text_field after the text is settled
AfterWrap == {"bg", "rectangle", "composite", "text", "next"}

\* C5: the surface keeps its size; a background never overwrites a pixel of the
\* surface (the template's layer stays at the bottom of every pixel); the
\* overlay has the surface's size, is fully transparent when created and holds
\* nothing but the rectangle; nothing of the field is on the surface before the
\* composite; after the composite and before the text the surface holds, of
\* this field, exactly the overlay's pixels; a field's background is below its
\* text.
C5_BackgroundViaOverlay ==
    /\ im.width = ImWidth
    /\ DOMAIN im.px = Pixels
    /\ \A p \in Pixels : im.px[p] # <<>> /\ im.px[p][1] = Template
    /\ overlay # <<>> =>
        /\ overlay[1].width = im.width
        /\ DOMAIN overlay[1].px = DOMAIN im.px
        /\ dpc = "rectangle" => \A p \in Pixels : overlay[1].px[p] = <<>>
        /\ dpc \in {"composite", "text", "next"} =>
            \A p \in Pixels :
                Kinds(overlay[1].px[p]) = IF InBox(p, box) THEN <<"bg">> ELSE <<>>
    /\ dpc \in {"bg", "rectangle", "composite"} =>
        \A p \in Pixels : ~Reached(im, p, fi)
    /\ (dpc = "text" /\ field.bg # <<>>) =>
        \A p \in Pixels : LayersOf(im.px[p], fi) = overlay[1].px[p]
    /\ \A p \in Pixels : \A k \in 1..Len(fields) :
        Kinds(LayersOf(im.px[p], k)) \in {<<>>, <<"bg">>, <<"text">>, <<"bg", "text">>}

\* C5 witness: a field with a half-transparent background is drawn, and a pixel
\* holds the template, the background and the text.
C5_Witness ==
    /\ dpc = "next"
    /\ field.bg = <<Red40>>
    /\ \E p \in Pixels : Kinds(im.px[p]) = <<"template", "bg", "text">>
    /\ \E p \in Pixels : Kinds(im.px[p]) = <<"template", "bg">>
    /\ \E p \in Pixels : Kinds(im.px[p]) = <<"template">>

\* the text draw_text_field draws for field k (none when its value is missing)
DrawnText(k) ==
    IF fields[k].fm = Missing THEN <<>>
    ELSE IF fields[k].wrap
    THEN wrap_font_text(LoadedFont, fields[k].fm, effective_max_width(fields[k], im))
    ELSE fields[k].fm

\* the pixels field k writes
TextRegion(k) ==
    LET b == textbbox(fields[k].x, DrawnText(k), LoadedFont)
    IN  {p \in Pixels : b[1] <= p /\ p < b[2]}

BgRegion(k) ==
    IF fields[k].bg = <<>> THEN {}
    ELSE LET b == expand(textbbox(fields[k].x, DrawnText(k), LoadedFont), fields[k])
         IN  {p \in Pixels : InBox(p, b)}

Region(k) == TextRegion(k) \cup BgRegion(k)

\* C6: the layers of every pixel are in the order of the fields; nothing of a
\* field after the current one is on the surface or the overlay; every field
\* before the current one is completely drawn; in the returned image the top
\* layer of a pixel is of the last field whose region holds the pixel.
C6_FieldOrder ==
    /\ \A p \in Pixels : InFieldOrder(im.px[p])
    /\ \A p \in Pixels : \A k \in 1..Len(fields) :
        k > fi => /\ ~Reached(im, p, k)
                  /\ overlay # <<>> => ~Reached(overlay[1], p, k)
    /\ \A k \in 1..Len(fields) :
        (k < fi \/ (k = fi /\ dpc = "next")) =>
            /\ \A p \in TextRegion(k) : Has(im.px[p], k, "text")
            /\ \A p \in BgRegion(k) : Has(im.px[p], k, "bg")
            /\ \A p \in Pixels \ Region(k) : ~Reached(im, p, k)
    /\ dpc = "returned" =>
        /\ ret = <<im>>
        /\ \A p \in Pixels : \A j \in 1..Len(fields) :
            (p \in Region(j) /\ \A k \in (j + 1)..Len(fields) : p \notin Region(k))
                => im.px[p][Len(im.px[p])].field = j

\* C6 witness: a card of two fields is returned, the second with a background,
\* and a pixel holds layers of both.
C6_Witness ==
    /\ dpc = "returned"
    /\ Len(fields) = 2
    /\ fields[2].bg # <<>>
    /\ fields[1].bg # <<>>
    /\ \E p \in Pixels : Reached(im, p, 1) /\ Reached(im, p, 2)
    /\ \E p \in Pixels : Reached(im, p, 1) /\ ~Reached(im, p, 2)

\* C7: once a field raised, draw has ended in that field with the error, takes
\* no further step, has returned no image, and nothing of that field or of a
\* later field is on the surface; an image is returned only when no field raised.
C7_FailFast ==
    /\ error # <<>> =>
        /\ dpc = "raised"
        /\ fi = error[1]
        /\ ret = <<>>
        /\ ~ENABLED Next
        /\ \A p \in Pixels : \A k \in fi..Len(fields) : ~Reached(im, p, k)
    /\ ret # <<>> => error = <<>> /\ fi = Len(fields) + 1
    /\ dpc = "raised" => error # <<>>

\* C7 witness: the second field raised after the first was drawn.
C7_Witness ==
    /\ dpc = "raised"
    /\ error = <<2>>
    /\ \E p \in Pixels : Reached(im, p, 1)
    /\ ret = <<>>

\* C10 (as claimed): with wrap, the budget handed to wrap_font_text is the
\* field's max_width whenever one is set, 0 included, and im.width - x when
\* none is; without wrap, wrap_font_text is not called and the text is drawn
\* as received.
C10_Budget ==
    dpc \in AfterWrap =>
        /\ field.wrap =>
            /\ wpc = "done"
            /\ max_width = IF field.max_width # <<>> THEN field.max_width[1]
                           ELSE im.width - field.x
        /\ ~field.wrap => (wpc = "idle" /\ value = field.fm)

====
